---- MODULE Spec2Model ----
(***************************************************************************)
(* A model of chora's request handler (src/src/chora/handler.py): a        *)
(* request is mapped to a directory below the root, the directory is       *)
(* resolved with __TEMPLATE__ fallback, HANDLE programs are followed, and  *)
(* the static artifacts STATUS, DATA and HEADERS are loaded and sent.      *)
(*                                                                         *)
(* Text (file contents, a program's stdout, the request path) is a         *)
(* sequence of tokens: a token is one character ("2", " ", "\n", ":",      *)
(* "/") or a whole file name ("a", "GET", "__TEMPLATE__"), which holds no  *)
(* separator and no whitespace.  A path is the sequence of its parts as    *)
(* pathlib gives them: an absolute path starts with the anchor "/".        *)
(***************************************************************************)
EXTENDS Integers, Sequences, FiniteSets, TLC

VARIABLES
    fs,         \* the directories that hold files: path -> their artifacts
    url,        \* self.path, the request target, as tokens
    method,     \* the request method (the name after do_)
    clen,       \* the request's Content-Length header: <<>> or <<its text>>
    pc,         \* the position of _handle_request
    tmpdir,     \* self.tmpdir
    scratch,    \* the temporary directories that exist: path -> files written
    cur,        \* the argument of the pending get_handler call
    probed,     \* the candidates the last _get_directory call has tested
    resolved,   \* what the last _get_directory call returned (<<>>: None)
    invoked,    \* the first MaxChain HANDLE invocations made, in order
    result,     \* what handler() returned, once it has
    wire,       \* what has been written to the client
    raised,     \* the exception that is propagating, "none" if none
    raisedIn,   \* the function that raised it, "none" if none
    peer        \* another handler object, serving another request

vars == <<fs, url, method, clen, pc, tmpdir, scratch, cur, probed, resolved,
          invoked, result, wire, raised, raisedIn, peer>>

----------------------------------------------------------------------------
(* Bounds of the model. *)

MaxUrlLen == 4
MaxStatusLen == 3
MaxHeadersLen == 5
MaxChain == 3
MaxDirs == 2

----------------------------------------------------------------------------
(* Tokens and text. *)

TEMPLATE == "__TEMPLATE__"
SEP == "/"
NL == "\n"

SeqsUpTo(S, n) == UNION {[1..k -> S] : k \in 0..n}

IsSpace(c) == c \in {" ", NL}

Text == Seq(STRING)

\* str.lstrip() and str.rstrip(), as functions of the text
LStripped[s \in Text] ==
    IF s # <<>> /\ IsSpace(Head(s)) THEN LStripped[Tail(s)] ELSE s

RStripped[s \in Text] ==
    IF s # <<>> /\ IsSpace(s[Len(s)]) THEN RStripped[SubSeq(s, 1, Len(s) - 1)] ELSE s

\* str.strip()
Strip(s) == RStripped[LStripped[s]]

\* str.strip("/")
SepStripped[s \in Text] ==
    IF s # <<>> /\ Head(s) = SEP THEN SepStripped[Tail(s)]
    ELSE IF s # <<>> /\ s[Len(s)] = SEP THEN SepStripped[SubSeq(s, 1, Len(s) - 1)]
    ELSE s

StripSep(s) == SepStripped[s]

\* the index of the first c in s, 0 if there is none
IndexOf(s, c) ==
    IF \E i \in 1..Len(s) : s[i] = c
    THEN CHOOSE i \in 1..Len(s) : s[i] = c /\ \A j \in 1..(i - 1) : s[j] # c
    ELSE 0

\* str.split(c): the pieces between the occurrences of c, at least one piece
SplitAt[s \in Text, c \in STRING] ==
    IF IndexOf(s, c) = 0 THEN <<s>>
    ELSE <<SubSeq(s, 1, IndexOf(s, c) - 1)>> \o SplitAt[SubSeq(s, IndexOf(s, c) + 1, Len(s)), c]

Split(s, c) == SplitAt[s, c]

\* the characters of a file name, joined into one token
RECURSIVE Join(_)
Join(s) == IF s = <<>> THEN "" ELSE Head(s) \o Join(Tail(s))

----------------------------------------------------------------------------
(* Paths (pathlib.Path). *)

ROOT == <<SEP, "r">>       \* self.root_dir
CWD == <<SEP, "w">>        \* the working directory of the server process
DEFAULT_TMPDIR == <<SEP, "tmp", "chora_cache">>

IsAbsolute(p) == p # <<>> /\ p[1] = SEP

RECURSIVE Components(_)
Components(pieces) ==
    IF pieces = <<>> THEN <<>>
    ELSE IF Head(pieces) = <<>> \/ Head(pieces) = <<".">> THEN Components(Tail(pieces))
    ELSE <<Join(Head(pieces))>> \o Components(Tail(pieces))

\* Path(text): the anchor when the text starts with a separator, then the
\* names between separators; empty names and "." are dropped, ".." is kept
PathOf(text) ==
    (IF text # <<>> /\ Head(text) = SEP THEN <<SEP>> ELSE <<>>)
        \o Components(Split(text, SEP))

\* a / b
JoinPath(a, b) == IF IsAbsolute(b) THEN b ELSE a \o b

\* Path.absolute()
Absolute(p) == IF IsAbsolute(p) THEN p ELSE CWD \o p

IsPrefix(p, q) == Len(p) <= Len(q) /\ SubSeq(q, 1, Len(p)) = p

----------------------------------------------------------------------------
(* The file system below the root: fs maps the directories that hold     *)
(* artifacts to them; every prefix of such a directory is a directory.   *)

NoFile == [exists |-> FALSE, content |-> <<>>]
File(text) == [exists |-> TRUE, content |-> text]

\* a HANDLE program: whether the process may execute it, whether it can be
\* launched, its exit status and what it writes to stdout
NoHandle == [exists |-> FALSE, exec |-> FALSE, launch |-> FALSE, exit |-> 0, out |-> <<>>]
Handle(x, l, e, o) == [exists |-> TRUE, exec |-> x, launch |-> l, exit |-> e, out |-> o]

NoFiles == [STATUS |-> NoFile, DATA |-> NoFile, HEADERS |-> NoFile, HANDLE |-> NoHandle]

\* the directory named by these parts, none of them "..", exists
DirAt(at) == \E d \in DOMAIN fs \cup {ROOT, CWD} : IsPrefix(at, d)

\* the directory the operating system reaches from directory at by the
\* parts rest: ".." leads from an existing directory to its parent (from
\* the anchor to itself); <<>> when ".." is looked up in no directory
RECURSIVE Walk(_, _)
Walk(at, rest) ==
    IF rest = <<>> THEN at
    ELSE IF Head(rest) = ".."
         THEN IF ~DirAt(at) THEN <<>>
              ELSE Walk(IF Len(at) > 1 THEN SubSeq(at, 1, Len(at) - 1) ELSE at, Tail(rest))
         ELSE Walk(Append(at, Head(rest)), Tail(rest))

\* where a path leads in the file system
Real(p) == Walk(<<SEP>>, Tail(Absolute(p)))

\* Path.is_dir()
IsDir(p) == Real(p) # <<>> /\ DirAt(Real(p))

\* the artifacts of a directory
Files(p) == IF Real(p) \in DOMAIN fs THEN fs[Real(p)] ELSE NoFiles

----------------------------------------------------------------------------
(* _get_directory *)

\* Path(*parts[: i - 1], "__TEMPLATE__", *parts[i:])
Candidate(parts, i) ==
    SubSeq(parts, 1, i - 1) \o <<TEMPLATE>> \o SubSeq(parts, i + 1, Len(parts))

\* a variant that scans from the first part to the last
RECURSIVE ScanUp(_, _, _)
ScanUp(parts, i, tested) ==
    IF i > Len(parts) THEN [found |-> FALSE, dir |-> <<>>, tested |-> tested]
    ELSE LET c == Candidate(parts, i)
         IN  IF IsDir(c) THEN [found |-> TRUE, dir |-> c, tested |-> Append(tested, c)]
             ELSE ScanUp(parts, i + 1, Append(tested, c))

ScanFirstToLast(parts, i, tested) == ScanUp(parts, 1, tested)

\* a variant that leaves the last part, the method, as it is
RECURSIVE ScanDown(_, _, _)
ScanDown(parts, i, tested) ==
    IF i < 1 THEN [found |-> FALSE, dir |-> <<>>, tested |-> tested]
    ELSE LET c == Candidate(parts, i)
         IN  IF IsDir(c) THEN [found |-> TRUE, dir |-> c, tested |-> Append(tested, c)]
             ELSE ScanDown(parts, i - 1, Append(tested, c))

ScanBelowMethod(parts, i, tested) ==
    ScanDown(parts, IF i = Len(parts) THEN i - 1 ELSE i, tested)

\* for i in range(len(parts), 0, -1): the candidates tested from i down, and
\* the first that is a directory (<<>> with found FALSE: None)
RECURSIVE ScanTemplates(_, _, _)
ScanTemplates(parts, i, tested) ==
    IF i < 1 THEN [found |-> FALSE, dir |-> <<>>, tested |-> tested]
    ELSE LET c == Candidate(parts, i)
         IN  IF IsDir(c) THEN [found |-> TRUE, dir |-> c, tested |-> Append(tested, c)]
             ELSE ScanTemplates(parts, i - 1, Append(tested, c))

\* a variant that looks for a template before the literal directory
GetDirectoryTemplateFirst(directory) ==
    LET r == ScanTemplates(directory, Len(directory), <<>>)
    IN  IF r.found THEN r
        ELSE IF IsDir(directory) THEN [found |-> TRUE, dir |-> directory, tested |-> r.tested]
        ELSE r

GetDirectory(directory) ==
    IF IsDir(directory) THEN [found |-> TRUE, dir |-> directory, tested |-> <<>>]
    ELSE ScanTemplates(directory, Len(directory), <<>>)

----------------------------------------------------------------------------
(* _static_handler *)

DIGITS == <<"0", "1", "2", "3", "4", "5", "6", "7", "8", "9">>

IsDigit(c) == \E i \in 1..10 : DIGITS[i] = c

DigitVal(c) == (CHOOSE i \in 1..10 : DIGITS[i] = c) - 1

\* the digits of s read left to right, underscores skipped
RECURSIVE Accumulate(_, _)
Accumulate(s, acc) ==
    IF s = <<>> THEN acc
    ELSE IF Head(s) = "_" THEN Accumulate(Tail(s), acc)
    ELSE Accumulate(Tail(s), acc * 10 + DigitVal(Head(s)))

\* digits, with single underscores between digits
WellFormedDigits(s) ==
    /\ s # <<>>
    /\ \A i \in 1..Len(s) : IsDigit(s[i]) \/ s[i] = "_"
    /\ IsDigit(s[1]) /\ IsDigit(s[Len(s)])
    /\ \A i \in 1..(Len(s) - 1) : ~(s[i] = "_" /\ s[i + 1] = "_")

\* int(text): whitespace around, an optional sign, digits
ParseInt(text) ==
    LET t == Strip(text)
        signed == t # <<>> /\ Head(t) \in {"+", "-"}
        body == IF signed THEN Tail(t) ELSE t
    IN  IF WellFormedDigits(body)
        THEN [ok |-> TRUE,
              val |-> IF signed /\ Head(t) = "-" THEN 0 - Accumulate(body, 0)
                      ELSE Accumulate(body, 0)]
        ELSE [ok |-> FALSE, val |-> 0]

\* response_headers[k] = v on a dict kept as the sequence of its items: a key
\* already present keeps its place and takes the new value
RECURSIVE DictSet(_, _, _)
DictSet(d, k, v) ==
    IF d = <<>> THEN <<<<k, v>>>>
    ELSE IF Head(d)[1] = k THEN <<<<k, v>>>> \o Tail(d)
    ELSE <<Head(d)>> \o DictSet(Tail(d), k, v)

\* a variant that splits at the last colon (rsplit)
HeaderItemAtLastColon(line) ==
    LET i == CHOOSE j \in 1..Len(line) :
                 line[j] = ":" /\ \A k \in (j + 1)..Len(line) : line[k] # ":"
    IN  <<Strip(SubSeq(line, 1, i - 1)), Strip(SubSeq(line, i + 1, Len(line)))>>

\* key, value = line.split(":", 1), both stripped
HeaderItem(line) ==
    LET i == IndexOf(line, ":")
    IN  <<Strip(SubSeq(line, 1, i - 1)), Strip(SubSeq(line, i + 1, Len(line)))>>

\* a variant without the test for a colon: a line that has none gives
\* its text as the name and an empty value
RECURSIVE HeaderLoopUnguarded(_, _)
HeaderLoopUnguarded(lines, d) ==
    IF lines = <<>> THEN d
    ELSE IF IndexOf(Head(lines), ":") # 0
         THEN HeaderLoopUnguarded(Tail(lines),
                    DictSet(d, HeaderItem(Head(lines))[1], HeaderItem(Head(lines))[2]))
         ELSE HeaderLoopUnguarded(Tail(lines), DictSet(d, Strip(Head(lines)), <<>>))

RECURSIVE HeaderLoop(_, _)
HeaderLoop(lines, d) ==
    IF lines = <<>> THEN d
    ELSE IF IndexOf(Head(lines), ":") # 0
         THEN HeaderLoop(Tail(lines), DictSet(d, HeaderItem(Head(lines))[1], HeaderItem(Head(lines))[2]))
         ELSE HeaderLoop(Tail(lines), d)

ParseHeaders(text) == HeaderLoop(Split(Strip(text), NL), <<>>)

NoResult == [status |-> 0, data |-> <<>>, headers |-> <<>>]

\* what _static_handler(directory) raises or returns; STATUS is read and
\* parsed first, then DATA is read, then HEADERS
StaticHandler(directory) ==
    LET f == Files(directory)
    IN  IF ~f.STATUS.exists THEN [exc |-> "FileNotFoundError", value |-> NoResult]
        ELSE IF ~ParseInt(Strip(f.STATUS.content)).ok THEN [exc |-> "ValueError", value |-> NoResult]
        ELSE IF ~f.DATA.exists THEN [exc |-> "FileNotFoundError", value |-> NoResult]
        ELSE IF ~f.HEADERS.exists THEN [exc |-> "FileNotFoundError", value |-> NoResult]
        ELSE [exc |-> "none",
              value |-> [status |-> ParseInt(Strip(f.STATUS.content)).val,
                         data |-> f.DATA.content,
                         headers |-> ParseHeaders(f.HEADERS.content)]]

----------------------------------------------------------------------------
(* _handle_request, step by step. *)

\* urlparse(self.path).path: what precedes the query and the fragment
UrlPath(u) ==
    LET q == IndexOf(u, "?")
        h == IndexOf(u, "#")
        cut == IF q = 0 THEN h ELSE IF h = 0 THEN q ELSE IF q < h THEN q ELSE h
    IN  IF cut = 0 THEN u ELSE SubSeq(u, 1, cut - 1)

\* a variant that does not strip the separators off the path
MethodDirUnstripped(u, m) ==
    JoinPath(JoinPath(ROOT, PathOf(UrlPath(u))), PathOf(<<m>>))

\* method_dir = self.root_dir / path / method
MethodDir(u, m) ==
    JoinPath(JoinPath(ROOT, PathOf(StripSep(UrlPath(u)))), PathOf(<<m>>))

\* the names tempfile.TemporaryDirectory() draws from
SCRATCH == <<SEP, "tmp", "tmp_request">>
SCRATCH2 == <<SEP, "tmp", "tmp_request2">>
ScratchDirs == <<SCRATCH, SCRATCH2>>

\* mkdtemp makes a directory under a name that does not exist; the names
\* are alike, so the first one free stands for any of them
Fresh(existing) ==
    ScratchDirs[CHOOSE i \in 1..Len(ScratchDirs) :
                    /\ ScratchDirs[i] \notin existing
                    /\ \A j \in 1..(i - 1) : ScratchDirs[j] \in existing]

\* a directory with no file in it
EmptyDir == [n \in {} |-> <<>>]

\* d, newly made, beside the directories that exist
MakeDir(dirs, d) == [e \in DOMAIN dirs \cup {d} |-> IF e = d THEN EmptyDir ELSE dirs[e]]

\* the files of f and the file name with this content, which replaces any
\* file of that name
WriteText(f, name, content) ==
    [n \in DOMAIN f \cup {name} |-> IF n = name THEN content ELSE f[n]]

\* a variant that uses one fixed directory for every request, making it if
\* it does not exist
EnterFixedDirectory ==
    /\ pc = "start"
    /\ cur' = MethodDir(url, method)
    /\ scratch' = IF SCRATCH \in DOMAIN scratch THEN scratch ELSE MakeDir(scratch, SCRATCH)
    /\ tmpdir' = SCRATCH
    /\ pc' = "cache"
    /\ UNCHANGED <<peer, fs, url, method, clen, probed, resolved, invoked, result, wire, raised, raisedIn>>

\* a variant that makes the temporary directory and leaves self.tmpdir as
\* __init__ set it
EnterKeepingDefault ==
    /\ pc = "start"
    /\ cur' = MethodDir(url, method)
    /\ scratch' = MakeDir(scratch, Fresh(DOMAIN scratch))
    /\ tmpdir' = tmpdir
    /\ pc' = "cache"
    /\ UNCHANGED <<peer, fs, url, method, clen, probed, resolved, invoked, result, wire, raised, raisedIn>>

\* with tempfile.TemporaryDirectory() as tmpdir: self.tmpdir = Path(tmpdir)
Enter ==
    /\ pc = "start"
    /\ cur' = MethodDir(url, method)
    /\ scratch' = MakeDir(scratch, Fresh(DOMAIN scratch))
    /\ tmpdir' = Fresh(DOMAIN scratch)
    /\ pc' = "cache"
    /\ UNCHANGED <<peer, fs, url, method, clen, probed, resolved, invoked, result, wire, raised, raisedIn>>

\* self.requestline
RequestLine(m, u) == <<m, " ">> \o u \o <<" ", "HTTP/1.1">>

\* what the loop over self.headers.items() writes
HeaderLines(cl) ==
    IF cl = <<>> THEN <<>> ELSE <<"Content-Length", ":", " ">> \o cl[1] \o <<NL>>

\* the bytes the client has sent after the headers
BODY == <<"p", "q", "r">>

\* self.rfile.read(n).decode()
ReadBody(n) ==
    IF n < 0 \/ n > Len(BODY) THEN BODY ELSE SubSeq(BODY, 1, n)

\* the files of directory dir after REQUEST and HEADERS are written
WithRequestAndHeaders(dir, line, cl) ==
    WriteText(WriteText(dir, "REQUEST", line), "HEADERS", HeaderLines(cl))

\* a variant that goes on to resolution once REQUEST and HEADERS are
\* written, leaving the body for later
CacheRequestWithoutData ==
    /\ pc = "cache"
    /\ scratch' = [scratch EXCEPT ![tmpdir] =
                        WithRequestAndHeaders(@, RequestLine(method, url), clen)]
    /\ UNCHANGED <<raised, raisedIn>>
    /\ pc' = "get_handler"
    /\ UNCHANGED <<peer, fs, url, method, clen, tmpdir, cur, probed, resolved, invoked, result, wire>>

\* _cache_request: REQUEST and HEADERS are written, then the content length
\* is parsed, the body read and DATA written
CacheRequest ==
    /\ pc = "cache"
    /\ IF clen # <<>> /\ ~ParseInt(clen[1]).ok
       THEN /\ scratch' = [scratch EXCEPT ![tmpdir] =
                                WithRequestAndHeaders(@, RequestLine(method, url), clen)]
            /\ raised' = "ValueError"
            /\ raisedIn' = "_cache_request"
            /\ pc' = "exit"
       ELSE /\ scratch' = [scratch EXCEPT ![tmpdir] =
                    WriteText(WithRequestAndHeaders(@, RequestLine(method, url), clen),
                              "DATA",
                              ReadBody(IF clen = <<>> THEN 0 ELSE ParseInt(clen[1]).val))]
            /\ UNCHANGED <<raised, raisedIn>>
            /\ pc' = "get_handler"
    /\ UNCHANGED <<peer, fs, url, method, clen, tmpdir, cur, probed, resolved, invoked, result, wire>>

\* a variant that follows one HANDLE only: the directory a handler names is
\* always taken as static
GetHandlerOneLevel ==
    /\ pc = "get_handler"
    /\ LET r == GetDirectory(cur)
       IN  /\ probed' = r.tested
           /\ resolved' = r.dir
           /\ IF ~r.found
              THEN raised' = "FileNotFoundError" /\ raisedIn' = "get_handler" /\ pc' = "exit"
              ELSE /\ UNCHANGED <<raised, raisedIn>>
                   /\ pc' = IF Files(r.dir).HANDLE.exists /\ invoked = <<>>
                            THEN "dynamic" ELSE "call"
    /\ UNCHANGED <<peer, fs, url, method, clen, tmpdir, scratch, cur, invoked, result, wire>>

\* a variant that looks for the static artifacts first: a directory with
\* STATUS is served as static whether or not it holds HANDLE
GetHandlerStaticFirst ==
    /\ pc = "get_handler"
    /\ LET r == GetDirectory(cur)
       IN  /\ probed' = r.tested
           /\ resolved' = r.dir
           /\ IF ~r.found
              THEN raised' = "FileNotFoundError" /\ raisedIn' = "get_handler" /\ pc' = "exit"
              ELSE /\ UNCHANGED <<raised, raisedIn>>
                   /\ pc' = IF Files(r.dir).HANDLE.exists /\ ~Files(r.dir).STATUS.exists
                            THEN "dynamic" ELSE "call"
    /\ UNCHANGED <<peer, fs, url, method, clen, tmpdir, scratch, cur, invoked, result, wire>>

\* get_handler(cur) up to its return or its call of _dynamic_handler
GetHandler ==
    /\ pc = "get_handler"
    /\ LET r == GetDirectory(cur)
       IN  /\ probed' = r.tested
           /\ resolved' = r.dir
           /\ IF ~r.found
              THEN raised' = "FileNotFoundError" /\ raisedIn' = "get_handler" /\ pc' = "exit"
              ELSE /\ UNCHANGED <<raised, raisedIn>>
                   /\ pc' = IF Files(r.dir).HANDLE.exists THEN "dynamic" ELSE "call"
    /\ UNCHANGED <<peer, fs, url, method, clen, tmpdir, scratch, cur, invoked, result, wire>>

\* a variant that resolves a relative output against the configured root
ResponseDirFromRoot(directory, out) ==
    LET response_dir == PathOf(Strip(out))
    IN  IF IsAbsolute(response_dir) THEN response_dir
        ELSE JoinPath(ROOT, response_dir)

\* the directory a HANDLE program's output names
ResponseDir(directory, out) ==
    LET response_dir == PathOf(Strip(out))
    IN  IF IsAbsolute(response_dir) THEN response_dir
        ELSE JoinPath(Absolute(directory), response_dir)

\* _dynamic_handler(resolved) up to its call of get_handler
DynamicHandler ==
    /\ pc = "dynamic"
    /\ LET h == Files(resolved).HANDLE
           call == [dir |-> Absolute(resolved), args |-> <<tmpdir>>, exit |-> h.exit]
           log == IF Len(invoked) < MaxChain THEN Append(invoked, call) ELSE invoked
       IN  IF ~h.exec
           THEN /\ raised' = "PermissionError" /\ raisedIn' = "_dynamic_handler"
                /\ pc' = "exit" /\ UNCHANGED <<cur, invoked>>
           ELSE IF ~h.launch
           THEN /\ raised' = "OSError" /\ raisedIn' = "_dynamic_handler"
                /\ pc' = "exit" /\ UNCHANGED <<cur, invoked>>
           ELSE IF h.exit # 0
           THEN /\ raised' = "CalledProcessError" /\ raisedIn' = "_dynamic_handler"
                /\ pc' = "exit" /\ invoked' = log /\ cur' = cur
           ELSE /\ invoked' = log
                /\ cur' = ResponseDir(resolved, h.out)
                /\ pc' = "get_handler"
                /\ UNCHANGED <<raised, raisedIn>>
    /\ UNCHANGED <<peer, fs, url, method, clen, tmpdir, scratch, probed, resolved, result, wire>>

\* a variant that writes the status line as soon as STATUS is parsed,
\* before DATA and HEADERS are read
CallHandlerStreaming ==
    /\ pc = "call"
    /\ LET r == StaticHandler(resolved)
           f == Files(resolved)
       IN  /\ wire' = IF f.STATUS.exists /\ ParseInt(Strip(f.STATUS.content)).ok
                      THEN <<[kind |-> "status",
                              value |-> ParseInt(Strip(f.STATUS.content)).val]>>
                      ELSE wire
           /\ IF r.exc # "none"
              THEN /\ raised' = r.exc /\ raisedIn' = "_static_handler"
                   /\ pc' = "exit" /\ result' = result
              ELSE /\ UNCHANGED <<raised, raisedIn>>
                   /\ pc' = "send" /\ result' = <<r.value>>
    /\ UNCHANGED <<peer, fs, url, method, clen, tmpdir, scratch, cur, probed, resolved, invoked>>

\* status_code, data, headers = handler()
CallHandler ==
    /\ pc = "call"
    /\ LET r == StaticHandler(resolved)
       IN  IF r.exc # "none"
           THEN /\ raised' = r.exc /\ raisedIn' = "_static_handler"
                /\ pc' = "exit" /\ result' = result
           ELSE /\ UNCHANGED <<raised, raisedIn>>
                /\ pc' = "send" /\ result' = <<r.value>>
    /\ UNCHANGED <<peer, fs, url, method, clen, tmpdir, scratch, cur, probed, resolved, invoked, wire>>

RECURSIVE HeaderWrites(_)
HeaderWrites(d) ==
    IF d = <<>> THEN <<>>
    ELSE <<[kind |-> "header", value |-> Head(d)]>> \o HeaderWrites(Tail(d))

\* send_response, send_header for each item, end_headers, wfile.write
SendResponse ==
    /\ pc = "send"
    /\ wire' = <<[kind |-> "status", value |-> result[1].status]>>
                \o HeaderWrites(result[1].headers)
                \o <<[kind |-> "body", value |-> result[1].data]>>
    /\ pc' = "exit"
    /\ UNCHANGED <<peer, fs, url, method, clen, tmpdir, scratch, cur, probed, resolved, invoked, result, raised, raisedIn>>

\* a variant that removes the temporary directory only when the block
\* ends without an exception
ExitWithOnSuccess ==
    /\ pc = "exit"
    /\ scratch' = IF raised = "none"
                  THEN [d \in DOMAIN scratch \ {tmpdir} |-> scratch[d]]
                  ELSE scratch
    /\ pc' = "done"
    /\ UNCHANGED <<peer, fs, url, method, clen, tmpdir, cur, probed, resolved, invoked, result, wire, raised, raisedIn>>

\* leaving the with block, normally or with the exception that is raised:
\* the temporary directory is removed; an exception goes on to the caller
ExitWith ==
    /\ pc = "exit"
    /\ scratch' = [d \in DOMAIN scratch \ {tmpdir} |-> scratch[d]]
    /\ pc' = "done"
    /\ UNCHANGED <<peer, fs, url, method, clen, tmpdir, cur, probed, resolved, invoked, result, wire, raised, raisedIn>>

\* the other handler object as __init__ leaves it
PeerConstructed == [pc |-> "start", tmpdir |-> DEFAULT_TMPDIR, raised |-> "none"]

\* the request line of the other request
PEER_REQUEST == <<"POST", " ", SEP, "p", " ", "HTTP/1.1">>

\* the other request enters its with block
PeerEnter ==
    /\ peer.pc = "start"
    /\ scratch' = MakeDir(scratch, Fresh(DOMAIN scratch))
    /\ peer' = [peer EXCEPT !.pc = "cache", !.tmpdir = Fresh(DOMAIN scratch)]
    /\ UNCHANGED <<fs, url, method, clen, pc, tmpdir, cur, probed, resolved,
                   invoked, result, wire, raised, raisedIn>>

\* _cache_request of the other request, whose Content-Length is a number
\* or is not
PeerCacheRequest ==
    /\ peer.pc = "cache"
    /\ \E cl \in {<<>>, <<<<"1">>>>, <<<<"x">>>>} :
          IF cl # <<>> /\ ~ParseInt(cl[1]).ok
          THEN /\ scratch' = [scratch EXCEPT ![peer.tmpdir] =
                                  WithRequestAndHeaders(@, PEER_REQUEST, cl)]
               /\ peer' = [peer EXCEPT !.pc = "exit", !.raised = "ValueError"]
          ELSE /\ scratch' = [scratch EXCEPT ![peer.tmpdir] =
                      WriteText(WithRequestAndHeaders(@, PEER_REQUEST, cl), "DATA",
                                ReadBody(IF cl = <<>> THEN 0 ELSE ParseInt(cl[1]).val))]
               /\ peer' = [peer EXCEPT !.pc = "serve"]
    /\ UNCHANGED <<fs, url, method, clen, pc, tmpdir, cur, probed, resolved,
                   invoked, result, wire, raised, raisedIn>>

\* get_handler, handler() and the writing of the response of the other
\* request: it ends in a response or in one of the exceptions
PeerServe ==
    /\ peer.pc = "serve"
    /\ \E e \in {"none", "FileNotFoundError", "PermissionError", "OSError",
                  "CalledProcessError", "ValueError"} :
          peer' = [peer EXCEPT !.pc = "exit", !.raised = e]
    /\ UNCHANGED <<fs, url, method, clen, pc, tmpdir, scratch, cur, probed, resolved,
                   invoked, result, wire, raised, raisedIn>>

\* the other request leaves its with block
PeerExitWith ==
    /\ peer.pc = "exit"
    /\ scratch' = [d \in DOMAIN scratch \ {peer.tmpdir} |-> scratch[d]]
    /\ peer' = [peer EXCEPT !.pc = "done"]
    /\ UNCHANGED <<fs, url, method, clen, pc, tmpdir, cur, probed, resolved,
                   invoked, result, wire, raised, raisedIn>>

Next ==
    \/ Enter
    \/ CacheRequest
    \/ GetHandler
    \/ DynamicHandler
    \/ CallHandler
    \/ SendResponse
    \/ ExitWith

\* two requests in flight under a transport that handles requests in
\* parallel: each has a handler object of its own
Next2 ==
    \/ Enter
    \/ CacheRequest
    \/ GetHandler
    \/ DynamicHandler
    \/ CallHandler
    \/ SendResponse
    \/ ExitWith
    \/ PeerEnter
    \/ PeerCacheRequest
    \/ PeerServe
    \/ PeerExitWith

----------------------------------------------------------------------------
(* The initial states: a request and a file system. *)

UrlTokens == {SEP, "a", "b"}

\* request targets as http.server hands them over: they start with one "/"
Urls ==
    {u \in SeqsUpTo(UrlTokens, MaxUrlLen) :
        /\ u # <<>> /\ u[1] = SEP
        /\ ~(Len(u) >= 2 /\ u[2] = SEP)}

Methods == {"GET", "POST"}

Static(st, da, he) == [STATUS |-> st, DATA |-> da, HEADERS |-> he, HANDLE |-> NoHandle]
Dynamic(h) == [STATUS |-> NoFile, DATA |-> NoFile, HEADERS |-> NoFile, HANDLE |-> h]

Route1 == Static(File(<<"2", "0", "0">>), File(<<"d", "1">>), File(<<"k", ":", " ", "v">>))
Route2 == Static(File(<<" ", "4", "0", "4", NL>>), File(<<"d", "2">>), File(<<>>))

\* layouts for resolution: up to MaxDirs directories among the literal and
\* template directories of the paths over {a, __TEMPLATE__}, below the root
\* (each empty or a static route) or beside it (each empty or a handler)
InsideDirs ==
    {ROOT \o p \o <<m>> : p \in SeqsUpTo({"a", TEMPLATE}, 2), m \in {"GET", TEMPLATE}}

OutsideDirs == {<<SEP, TEMPLATE, "a", "GET">>, CWD \o <<TEMPLATE, "r", "a", "GET">>}

ToX == <<"x", NL>>

ResolutionLayouts ==
    UNION {{[d \in S |-> IF k[d] THEN NoFiles
                         ELSE IF d \in InsideDirs THEN Route1
                         ELSE Dynamic(Handle(TRUE, TRUE, 0, ToX))] : k \in [S -> BOOLEAN]} :
           S \in {T \in SUBSET (InsideDirs \cup OutsideDirs) : Cardinality(T) <= MaxDirs}}

\* layouts for handler chains: a route, a directory below it and a template
H1 == ROOT \o <<"a", "GET">>
H1x == H1 \o <<"x">>
HT == ROOT \o <<TEMPLATE, "GET">>

ToH1 == <<" ", SEP, "r", SEP, "a", SEP, "GET", NL>>
ToHT == <<SEP, "r", SEP, TEMPLATE, SEP, "GET">>
ToNowhere == <<SEP, "n", NL>>

H1Kinds ==
    {NoFiles, Route1, Route2,
     Dynamic(Handle(FALSE, TRUE, 0, ToX)),
     Dynamic(Handle(TRUE, FALSE, 0, ToX)),
     Dynamic(Handle(TRUE, TRUE, 1, ToX)),
     [Route2 EXCEPT !.HANDLE = Handle(TRUE, TRUE, 0, ToX)]}
        \cup {Dynamic(Handle(TRUE, TRUE, 0, o)) : o \in {<<>>, <<NL>>, ToX, ToH1, ToHT, ToNowhere}}

H1xKinds ==
    {Route1, Route2, Static(File(<<"x">>), File(<<>>), File(<<>>)),
     Dynamic(Handle(TRUE, TRUE, 1, <<>>)),
     Dynamic(Handle(TRUE, TRUE, 0, ToH1)),
     Dynamic(Handle(TRUE, TRUE, 0, ToHT))}

HTKinds ==
    {Route2, Dynamic(Handle(TRUE, TRUE, 0, ToX)), Dynamic(Handle(TRUE, TRUE, 0, ToH1))}

ChainLayouts ==
    UNION {{[d \in S |-> IF d = H1 THEN k1 ELSE IF d = H1x THEN kx ELSE kt] :
                k1 \in H1Kinds, kx \in H1xKinds, kt \in HTKinds} :
           S \in SUBSET {H1, H1x, HT}}

\* layouts for loading: one static route whose artifacts range over every
\* text up to a length, or are missing
StatusChars == {"2", "0", " ", "x", "-"}
HeaderChars == {"k", "v", ":", " ", NL}

StatusFiles == {NoFile} \cup {File(t) : t \in SeqsUpTo(StatusChars, MaxStatusLen)}
HeaderFiles == {NoFile} \cup {File(t) : t \in SeqsUpTo(HeaderChars, MaxHeadersLen)}
DataFiles == {NoFile, File(<<>>), File(<<" ", "d", NL>>)}

StaticLayouts ==
    {[d \in {H1} |-> Static(st, da, he)] :
        st \in StatusFiles, da \in DataFiles,
        he \in {NoFile, File(<<"k", ":", "v", ":", "k">>)}}
    \cup
    {[d \in {H1} |-> Static(File(<<"2", "0", "0">>), File(<<"d">>), he)] : he \in HeaderFiles}

\* requests for the root, with a trailing separator and with ".." parts,
\* by either method, over routes of the root, of a and of a directory
\* outside the root
OUTSIDE == <<SEP, "o">>

EdgeUrls ==
    {<<SEP>>, <<SEP, "a">>, <<SEP, "a", SEP>>, <<SEP, "..", SEP, "o">>,
     <<SEP, "a", SEP, "..", SEP, "..", SEP, "o">>, <<SEP, "b", SEP, "..", SEP, "a">>}

EdgeLayouts ==
    {[d \in S |-> IF d = OUTSIDE \o <<"GET">> THEN Route2 ELSE Route1] :
        S \in SUBSET {ROOT \o <<"GET">>, ROOT \o <<"POST">>, ROOT \o <<"a", "GET">>,
                      ROOT \o <<"a", "POST">>, OUTSIDE \o <<"GET">>}}

\* the handler object as __init__ leaves it, before the request is handled
Constructed ==
    /\ pc = "start"
    /\ tmpdir = DEFAULT_TMPDIR
    /\ scratch = <<>>
    /\ cur = <<>>
    /\ probed = <<>>
    /\ resolved = <<>>
    /\ invoked = <<>>
    /\ result = <<>>
    /\ wire = <<>>
    /\ raised = "none"
    /\ raisedIn = "none"
    /\ method \in Methods
    /\ peer = PeerConstructed

Init ==
    /\ Constructed
    /\ \/ url \in Urls /\ method = "GET" /\ fs \in ResolutionLayouts /\ clen = <<>>
       \/ /\ url \in {<<SEP, "a">>, <<SEP, "b">>} /\ method = "GET"
          /\ fs \in ChainLayouts /\ clen = <<>>
       \/ url = <<SEP, "a">> /\ method = "GET" /\ fs \in StaticLayouts /\ clen = <<>>
       \/ /\ url = <<SEP, "a">> /\ method = "GET"
          /\ fs \in {[d \in {H1} |-> Route1], [d \in {H1} |-> Dynamic(Handle(TRUE, TRUE, 0, ToX))]}
          /\ clen \in {<<<<"2">>>>, <<<<"x">>>>}
       \/ url \in EdgeUrls /\ fs \in EdgeLayouts /\ clen = <<>>

Spec == Init /\ [][Next]_vars

\* the requests that meet handler chains
ChainInit ==
    /\ Constructed
    /\ url \in {<<SEP, "a">>, <<SEP, "b">>} /\ method = "GET" /\ fs \in ChainLayouts /\ clen = <<>>

\* the request-handling thread keeps running until _handle_request returns
FairSpec == ChainInit /\ [][Next]_vars /\ WF_vars(Next)

\* the requests handled beside another one
Init2 ==
    /\ Constructed
    /\ url = <<SEP, "a">> /\ method = "GET"
    /\ \/ fs \in ChainLayouts /\ clen = <<>>
       \/ /\ fs \in {[d \in {H1} |-> Route1], [d \in {H1} |-> Dynamic(Handle(TRUE, TRUE, 0, ToX))]}
          /\ clen \in {<<<<"2">>>>, <<<<"x">>>>}

Spec2 == Init2 /\ [][Next2]_vars

----------------------------------------------------------------------------
(* What the specification speaks of, stated without the operators that model the   *)
(* code.                                                                   *)

White == {" ", NL}

\* s without its leading and trailing whitespace
Trimmed(s) ==
    LET black == {i \in 1..Len(s) : s[i] \notin White}
    IN  IF black = {} THEN <<>>
        ELSE SubSeq(s, CHOOSE i \in black : \A j \in black : i <= j,
                       CHOOSE i \in black : \A j \in black : i >= j)

DecimalDigits == {"0", "1", "2", "3", "4", "5", "6", "7", "8", "9"}

ValueOfDigit(c) ==
    CASE c = "0" -> 0 [] c = "1" -> 1 [] c = "2" -> 2 [] c = "3" -> 3 [] c = "4" -> 4
      [] c = "5" -> 5 [] c = "6" -> 6 [] c = "7" -> 7 [] c = "8" -> 8 [] c = "9" -> 9

RECURSIVE Pow10(_)
Pow10(n) == IF n = 0 THEN 1 ELSE 10 * Pow10(n - 1)

RECURSIVE SumOver(_, _)
SumOver(S, f) ==
    IF S = {} THEN 0
    ELSE LET x == CHOOSE y \in S : TRUE IN f[x] + SumOver(S \ {x}, f)

\* text is a base-10 integer with optional whitespace around it
HoldsInteger(text) ==
    LET t == Trimmed(text)
        d == IF t # <<>> /\ t[1] = "-" THEN Tail(t) ELSE t
    IN  d # <<>> /\ \A i \in 1..Len(d) : d[i] \in DecimalDigits

\* the integer such a text holds: each digit weighs a power of ten
IntegerHeld(text) ==
    LET t == Trimmed(text)
        neg == t # <<>> /\ t[1] = "-"
        d == IF neg THEN Tail(t) ELSE t
        n == SumOver(1..Len(d), [i \in 1..Len(d) |-> ValueOfDigit(d[i]) * Pow10(Len(d) - i)])
    IN  IF neg THEN 0 - n ELSE n

\* the lines of a text, as the pairs <<first index, last index>> of the
\* stretches between its line feeds
LinesOf(t) ==
    LET breaks == {0, Len(t) + 1} \cup {i \in 1..Len(t) : t[i] = NL}
    IN  {<<b + 1, e - 1>> : <<b, e>> \in
            {x \in breaks \X breaks : x[1] < x[2] /\ \A m \in breaks : ~(x[1] < m /\ m < x[2])}}

HasColon(t, line) == \E i \in line[1]..line[2] : t[i] = ":"

FirstColon(t, line) ==
    CHOOSE i \in line[1]..line[2] : t[i] = ":" /\ \A j \in line[1]..(i - 1) : t[j] # ":"

\* the name and the value a colon-bearing line gives
NameOf(t, line) == Trimmed(SubSeq(t, line[1], FirstColon(t, line) - 1))
ValueOf(t, line) == Trimmed(SubSeq(t, FirstColon(t, line) + 1, line[2]))

\* the header mapping a HEADERS text stores: a name-value pair for each
\* colon-bearing line, a name taking the value of the last line that bears it
HeaderPairs(text) ==
    LET t == Trimmed(text)
        lines == {l \in LinesOf(t) : HasColon(t, l)}
    IN  {<<NameOf(t, l), ValueOf(t, l)>> : l \in
            {l \in lines : \A m \in lines : NameOf(t, m) = NameOf(t, l) => m[1] <= l[1]}}

ItemsOf(d) == {d[i] : i \in 1..Len(d)}

\* the last get_handler call has returned or raised
Resolved == pc \in {"dynamic", "call", "send", "exit", "done"} /\ raisedIn # "_cache_request"

\* handler(), the static handler of the resolved directory, has returned or raised
Loaded == pc \in {"send", "exit", "done"} /\ raisedIn \in {"none", "_static_handler"}

ValidStatic(d) ==
    /\ ~Files(d).HANDLE.exists
    /\ Files(d).STATUS.exists /\ HoldsInteger(Files(d).STATUS.content)
    /\ Files(d).DATA.exists
    /\ Files(d).HEADERS.exists

----------------------------------------------------------------------------
----------------------------------------------------------------------------
\* t with its i-th part replaced by the sentinel
Replaced(t, i) == [t EXCEPT ![i] = TEMPLATE]

\* the parts of t whose replacement by the sentinel gives a directory
Hits(t) == {i \in 1..Len(t) : IsDir(Replaced(t, i))}

(* C2: when the target directory does not exist, _get_directory returns   *)
(* the first existing directory among the candidates that replace exactly *)
(* one part of the target by __TEMPLATE__, tried from the last part to    *)
(* the first, and None when there is none; it never returns a path with   *)
(* two or more parts replaced; a template at a position serves every      *)
(* value at that position that has no literal directory.                  *)
C2_TemplateFallback ==
    (Resolved /\ ~IsDir(cur)) =>
        IF Hits(cur) = {}
        THEN raisedIn = "get_handler" /\ raised = "FileNotFoundError" /\ resolved = <<>>
        ELSE /\ raisedIn # "get_handler"
             /\ \E i \in Hits(cur) : resolved = Replaced(cur, i) /\ \A j \in Hits(cur) : j <= i
             /\ Len(resolved) = Len(cur)
             /\ Cardinality({i \in 1..Len(cur) : resolved[i] # cur[i]}) <= 1
             /\ \A i \in Hits(cur) : ~IsDir(SubSeq(cur, 1, i)) => resolved = Replaced(cur, i)

\* the target a/b/c is missing, a/__TEMPLATE__/c and __TEMPLATE__/b/c both
\* exist, and a/__TEMPLATE__/c has been returned
C2_Witness ==
    /\ Resolved /\ ~IsDir(cur) /\ Len(cur) >= 5
    /\ Hits(cur) = {Len(cur) - 1, Len(cur) - 2}
    /\ resolved = Replaced(cur, Len(cur) - 1)
    /\ pc = "call"

Unusable(d) ==
    /\ ~Files(d).HANDLE.exists
    /\ ~(Files(d).STATUS.exists /\ Files(d).DATA.exists /\ Files(d).HEADERS.exists)

(* C3: whenever the literal target directory exists, resolution returns   *)
(* it and tests no template candidate, whatever templates exist; when the *)
(* literal directory is unusable (no HANDLE, a static artifact missing)   *)
(* the request fails and no template serves it.                           *)
C3_ExactMatchWins ==
    (Resolved /\ IsDir(cur)) =>
        /\ resolved = cur
        /\ probed = <<>>
        /\ raisedIn # "get_handler"
        /\ (Unusable(cur) /\ pc = "done") =>
               raisedIn = "_static_handler" /\ raised # "none" /\ result = <<>> /\ wire = <<>>

\* the literal directory exists and is unusable, a template candidate is a
\* valid static route, and the request has failed
C3_Witness ==
    /\ Resolved /\ IsDir(cur) /\ Unusable(cur) /\ pc = "done"
    /\ \E i \in Hits(cur) : ValidStatic(Replaced(cur, i))
    /\ raised = "FileNotFoundError"

----------------------------------------------------------------------------
\* the directory that serves target t: t itself when it exists, else the
\* last single replacement that exists (<<>>: none)
Serving(t) ==
    IF IsDir(t) THEN t
    ELSE IF Hits(t) = {} THEN <<>>
    ELSE Replaced(t, CHOOSE i \in Hits(t) : \A j \in Hits(t) : j <= i)

\* the path the HANDLE program of directory d prints
Printed(d) == PathOf(Trimmed(Files(d).HANDLE.out))

\* the directory that program names
Named(d) == IF Printed(d) # <<>> /\ Printed(d)[1] = SEP THEN Printed(d) ELSE d \o Printed(d)

\* the target of the k-th resolution of a chain
TargetOf(k) == IF k = 1 THEN MethodDir(url, method) ELSE Named(invoked[k - 1].dir)

(* C4: a chain of dynamic handlers is followed transitively: a resolved   *)
(* directory that holds HANDLE has its program invoked, whatever the      *)
(* number of handlers before it; the response returned is loaded from the *)
(* first directory without HANDLE that is reached; once a step has        *)
(* failed, no handler is invoked and nothing is returned or sent.         *)
C4_ChainFollowed ==
    /\ [](/\ (Resolved /\ pc = "call") => ~Files(resolved).HANDLE.exists
          /\ (Resolved /\ pc = "dynamic") => Files(resolved).HANDLE.exists
          /\ \A k \in 1..Len(invoked) :
                /\ Files(invoked[k].dir).HANDLE.exists
                /\ invoked[k].dir = Absolute(Serving(TargetOf(k)))
                /\ k < Len(invoked) => invoked[k].exit = 0
          /\ (Loaded /\ raised = "none" /\ Len(invoked) < MaxChain) =>
                /\ resolved = Serving(TargetOf(Len(invoked) + 1))
                /\ ~Files(resolved).HANDLE.exists
                /\ \A k \in 1..Len(invoked) : invoked[k].exit = 0
                /\ result[1].data = Files(resolved).DATA.content
          /\ raised # "none" => result = <<>> /\ wire = <<>>)
    /\ [][raised # "none" => invoked' = invoked /\ raised' = raised /\ result' = result /\ wire' = wire]_vars

\* two handlers have been invoked in turn and the static directory the
\* second names has been sent
C4_Witness ==
    /\ pc = "done" /\ raised = "none" /\ wire # <<>>
    /\ Len(invoked) = 2 /\ invoked[1].dir # invoked[2].dir
    /\ resolved \notin {invoked[1].dir, invoked[2].dir}

(* C5: a relative path printed by a HANDLE program is joined to the       *)
(* directory that holds the program, not to the root or to the working    *)
(* directory; an absolute path is used unchanged.                         *)
C5_RelativeToHandler ==
    (pc = "get_handler" /\ invoked # <<>>) =>
        cur = IF Printed(resolved) # <<>> /\ Printed(resolved)[1] = SEP
              THEN Printed(resolved)
              ELSE Absolute(resolved) \o Printed(resolved)

\* a handler outside the root and the working directory has printed a
\* relative path
C5_Witness ==
    /\ pc = "get_handler" /\ invoked # <<>>
    /\ Printed(resolved) # <<>> /\ Printed(resolved)[1] # SEP
    /\ Absolute(resolved) \notin {ROOT, CWD}
    /\ cur \notin {ROOT \o Printed(resolved), CWD \o Printed(resolved)}

(* C6: recursion through dynamic handlers terminates: when every HANDLE   *)
(* program exits, handling a request ends in a response or a failure.     *)
C6_Terminates == <>(pc = "done")

\* a status line with this code has been written to the client
StatusSent(n) == wire # <<>> /\ wire[1] = [kind |-> "status", value |-> n]

(* C7: every failure raised while handling a request is caught inside     *)
(* _handle_request and converted to a response: nothing propagates out,   *)
(* and the client is sent a status.                                       *)
C7_FailuresCaught ==
    (pc = "done" /\ raisedIn # "none") => (raised = "none" /\ wire # <<>>)

(* C8: when neither the literal route target nor any single-part template *)
(* candidate exists, the client receives status 404.                      *)
C8_NotFoundIs404 ==
    (pc = "done" /\ raisedIn # "_cache_request"
        /\ ~IsDir(MethodDir(url, method)) /\ Hits(MethodDir(url, method)) = {})
        => StatusSent(404)

(* C9: when the resolved directory has no HANDLE and lacks exactly one of *)
(* STATUS, DATA and HEADERS, the other two present and well formed, the   *)
(* client receives status 404.                                            *)
C9_MissingArtifactIs404 ==
    (pc = "done" /\ raisedIn \in {"none", "_static_handler"}
        /\ ~Files(resolved).HANDLE.exists
        /\ Cardinality({a \in {"STATUS", "DATA", "HEADERS"} : ~Files(resolved)[a].exists}) = 1
        /\ (Files(resolved).STATUS.exists => HoldsInteger(Files(resolved).STATUS.content)))
        => StatusSent(404)

(* C10: when the resolved static directory's STATUS holds text that is    *)
(* not a base-10 integer, the client receives status 500.                 *)
C10_MalformedStatusIs500 ==
    (pc = "done" /\ raisedIn \in {"none", "_static_handler"}
        /\ ~Files(resolved).HANDLE.exists
        /\ Files(resolved).STATUS.exists /\ Files(resolved).DATA.exists
        /\ Files(resolved).HEADERS.exists
        /\ ~HoldsInteger(Files(resolved).STATUS.content))
        => StatusSent(500)

(* C11: when the resolved directory holds a HANDLE file the server cannot *)
(* execute, the client receives status 403.                               *)
C11_NotExecutableIs403 ==
    (pc = "done" /\ Resolved /\ resolved # <<>>
        /\ Files(resolved).HANDLE.exists /\ ~Files(resolved).HANDLE.exec)
        => StatusSent(403)

\* the last HANDLE program has been run and has exited with a nonzero status
ExitedNonzero ==
    /\ Resolved /\ resolved # <<>>
    /\ Files(resolved).HANDLE.exists /\ Files(resolved).HANDLE.exec
    /\ Files(resolved).HANDLE.launch /\ Files(resolved).HANDLE.exit # 0

(* C12: when an executable HANDLE program exits with a nonzero status,    *)
(* the client receives status 500 and the output of the program is not    *)
(* taken as a path.                                                       *)
C12_NonzeroExitIs500 ==
    (pc = "done" /\ ExitedNonzero) => (StatusSent(500) /\ raisedIn # "get_handler")

(* C13: when a HANDLE program exits with status zero and its output names *)
(* a directory that does not exist, the client receives status 404.       *)
C13_MissingOutputDirIs404 ==
    (pc = "done" /\ invoked # <<>> /\ raised # "CalledProcessError" /\ ~IsDir(cur))
        => StatusSent(404)

(* C14: a resolved directory that holds HANDLE is always treated as       *)
(* dynamic: _static_handler is never called on it, so its STATUS, DATA    *)
(* and HEADERS are never read, and neither a response nor a loading       *)
(* failure comes from them.                                               *)
C14_HandleIsDynamic ==
    (Resolved /\ resolved # <<>> /\ Files(resolved).HANDLE.exists) =>
        /\ pc \notin {"call", "send"}
        /\ result = <<>> /\ wire = <<>>
        /\ raisedIn # "_static_handler"

\* a directory with HANDLE and the three static artifacts has had its
\* program run, and the response sent was loaded from another directory
C14_Witness ==
    /\ pc = "done" /\ wire # <<>> /\ invoked # <<>>
    /\ Files(invoked[1].dir).STATUS.exists
    /\ Files(invoked[1].dir).DATA.exists
    /\ Files(invoked[1].dir).HEADERS.exists
    /\ resolved # invoked[1].dir
    /\ result[1].data = Files(resolved).DATA.content

(* C15: the scratch directory of the request, with all its contents, no   *)
(* longer exists once _handle_request has finished, whether it ends in a  *)
(* response or in a failure of the snapshot write, of resolution, of a    *)
(* handler or of the loading of the static response.                      *)
C15_ScratchRemoved ==
    /\ pc = "done" => (tmpdir # DEFAULT_TMPDIR /\ tmpdir \notin DOMAIN scratch)
    /\ pc \in {"cache", "get_handler", "dynamic", "call", "send", "exit"} =>
            tmpdir \in DOMAIN scratch

\* a request whose handler exited nonzero has finished, and its scratch
\* directory is gone
C15_Witness ==
    /\ pc = "done" /\ raised = "CalledProcessError" /\ invoked # <<>>
    /\ tmpdir \notin DOMAIN scratch

\* the scratch directory holds the three artifacts of this request
SnapshotWritten ==
    /\ tmpdir \in DOMAIN scratch
    /\ DOMAIN scratch[tmpdir] = {"REQUEST", "HEADERS", "DATA"}
    /\ scratch[tmpdir]["REQUEST"] = <<method, " ">> \o url \o <<" ", "HTTP/1.1">>

(* C16: the three snapshot artifacts REQUEST, HEADERS and DATA are        *)
(* written into the scratch directory before the first HANDLE program is  *)
(* invoked: whenever a program is about to be invoked or has been, the    *)
(* snapshot is complete, and the snapshot is not written again later.     *)
C16_SnapshotBeforeHandlers ==
    /\ [](pc = "dynamic" => SnapshotWritten)
    /\ [][invoked # <<>> \/ pc = "dynamic" =>
            (pc' # "cache" /\ (pc' # "done" => scratch' = scratch))]_vars

\* a handler has been invoked with the snapshot, body included, in place
C16_Witness ==
    /\ pc = "get_handler" /\ invoked # <<>> /\ SnapshotWritten
    /\ scratch[tmpdir]["DATA"] # <<>>

(* C17: every HANDLE invocation of a request, whatever its place in a     *)
(* chain, is given exactly one argument, the scratch directory of that    *)
(* request, which exists and holds the snapshot when the program runs; it *)
(* is never the /tmp/chora_cache the constructor sets.                    *)
C17_HandlerArgument ==
    /\ \A k \in 1..Len(invoked) :
            /\ Len(invoked[k].args) = 1
            /\ invoked[k].args[1] = tmpdir
            /\ invoked[k].args[1] # DEFAULT_TMPDIR
    /\ pc = "dynamic" =>
            /\ tmpdir # DEFAULT_TMPDIR
            /\ tmpdir \in DOMAIN scratch
            /\ "REQUEST" \in DOMAIN scratch[tmpdir]

\* two handlers of a chain have been given the scratch directory
C17_Witness ==
    /\ Len(invoked) = 2 /\ invoked[1].dir # invoked[2].dir
    /\ invoked[2].args = <<tmpdir>> /\ tmpdir \in DOMAIN scratch

\* _handle_request is inside its with block
InFlight == pc \in {"cache", "get_handler", "dynamic", "call", "send", "exit"}
PeerInFlight == peer.pc \in {"cache", "serve", "exit"}

\* the REQUEST artifact of directory d, if written, holds this request line
HoldsRequestOf(d, line) ==
    /\ d \in DOMAIN scratch
    /\ "REQUEST" \in DOMAIN scratch[d] => scratch[d]["REQUEST"] = line

(* C18: for every interleaving of two requests handled at the same time,  *)
(* the two never share a scratch directory, each directory holds the      *)
(* snapshot of its own request only, no step of one request changes or    *)
(* removes the directory of the other, and a step of one, failure         *)
(* included, changes nothing of what the other has resolved, loaded or    *)
(* sent.                                                                  *)
C18_RequestsIsolated ==
    /\ [](/\ (InFlight /\ PeerInFlight) => tmpdir # peer.tmpdir
          /\ InFlight => HoldsRequestOf(tmpdir, <<method, " ">> \o url \o <<" ", "HTTP/1.1">>)
          /\ PeerInFlight => HoldsRequestOf(peer.tmpdir, PEER_REQUEST))
    /\ [][/\ (peer' # peer /\ InFlight) =>
                /\ tmpdir \in DOMAIN scratch' /\ scratch'[tmpdir] = scratch[tmpdir]
                /\ <<pc, tmpdir, resolved, invoked, result, wire, raised>>'
                        = <<pc, tmpdir, resolved, invoked, result, wire, raised>>
          /\ (peer' = peer /\ PeerInFlight) =>
                /\ peer.tmpdir \in DOMAIN scratch'
                /\ scratch'[peer.tmpdir] = scratch[peer.tmpdir]]_vars

\* the other request has failed after writing its snapshot while this one,
\* which entered second, is about to run a handler on its own snapshot
C18_Witness ==
    /\ pc = "dynamic" /\ peer.pc = "exit" /\ peer.raised = "CalledProcessError"
    /\ tmpdir = SCRATCH2 /\ peer.tmpdir = SCRATCH
    /\ scratch[tmpdir]["REQUEST"] # scratch[peer.tmpdir]["REQUEST"]

(* C19: writing the request snapshot never fails because of the body:     *)
(* when Content-Length is absent or is not a number the body is taken as  *)
(* empty, an empty DATA is written and the request goes on to resolution. *)
C19_BodyNeverFails ==
    (pc \notin {"start", "cache"} /\ (clen = <<>> \/ ~HoldsInteger(clen[1]))) =>
        /\ raisedIn # "_cache_request"
        /\ InFlight => ("DATA" \in DOMAIN scratch[tmpdir] /\ scratch[tmpdir]["DATA"] = <<>>)

\* the name-value entries of a HEADERS text: one for each colon-bearing
\* line, in the order of the lines
HeaderEntries(text) ==
    LET t == Trimmed(text)
        lines == {l \in LinesOf(t) : HasColon(t, l)}
        nth(i) == CHOOSE l \in lines : Cardinality({m \in lines : m[1] < l[1]}) = i - 1
    IN  [i \in 1..Cardinality(lines) |-> <<NameOf(t, nth(i)), ValueOf(t, nth(i))>>]

\* the headers written to the client, in the order written
HeadersSent == [i \in 1..(Len(wire) - 2) |-> wire[i + 1].value]

(* C20: the headers of a static response hold one entry for each          *)
(* colon-bearing line of HEADERS, in file order; lines that repeat a name *)
(* are each kept, none dropped or overwritten.                            *)
C20_DuplicateHeadersKept ==
    (pc = "done" /\ raised = "none" /\ wire # <<>> /\ ValidStatic(resolved)) =>
        HeadersSent = HeaderEntries(Files(resolved).HEADERS.content)

\* the colon-bearing lines of a HEADERS text
ColonLines(text) == {l \in LinesOf(Trimmed(text)) : HasColon(Trimmed(text), l)}

(* C21: the lines of HEADERS that hold no colon are skipped without       *)
(* error: a static directory still yields its status and its body, every  *)
(* header it yields comes from a colon-bearing line, and there is none    *)
(* when HEADERS is empty or holds only lines without a colon.             *)
C21_ColonlessLinesSkipped ==
    (Loaded /\ ValidStatic(resolved)) =>
        LET text == Files(resolved).HEADERS.content
        IN  /\ raised = "none" /\ result # <<>>
            /\ result[1].status = IntegerHeld(Files(resolved).STATUS.content)
            /\ result[1].data = Files(resolved).DATA.content
            /\ \A h \in ItemsOf(result[1].headers) :
                    \E l \in ColonLines(text) :
                        h = <<NameOf(Trimmed(text), l), ValueOf(Trimmed(text), l)>>
            /\ ColonLines(text) = {} => result[1].headers = <<>>
            /\ (pc = "done" /\ ColonLines(text) = {}) =>
                    wire = <<[kind |-> "status", value |-> result[1].status],
                             [kind |-> "body", value |-> result[1].data]>>

\* a HEADERS of two lines without a colon has been loaded and the response
\* sent without a header
C21_Witness ==
    /\ pc = "done" /\ ValidStatic(resolved) /\ Len(wire) = 2
    /\ ColonLines(Files(resolved).HEADERS.content) = {}
    /\ Cardinality(LinesOf(Trimmed(Files(resolved).HEADERS.content))) = 2

\* the root, then the names of the request path between its separators,
\* then the method
RouteTarget ==
    LET starts == {i \in 1..Len(url) : url[i] # SEP /\ (i = 1 \/ url[i - 1] = SEP)}
        end(i) == CHOOSE j \in i..Len(url) :
                      /\ \A k \in i..j : url[k] # SEP
                      /\ (j = Len(url) \/ url[j + 1] = SEP)
        nth(n) == CHOOSE i \in starts : Cardinality({k \in starts : k < i}) = n - 1
    IN  ROOT \o [n \in 1..Cardinality(starts) |-> Join(SubSeq(url, nth(n), end(nth(n))))]
             \o <<method>>

(* C22: the route target of a request is the root directory followed by   *)
(* the request path without its leading and trailing separators followed  *)
(* by the method name; for the path "/" it is <root>/<METHOD>, whatever   *)
(* the method, and that directory serves the request when it exists.      *)
C22_RouteTarget ==
    (pc # "start" /\ invoked = <<>>) =>
        /\ cur = RouteTarget
        /\ url = <<SEP>> => cur = ROOT \o <<method>>
        /\ (Resolved /\ \E d \in DOMAIN fs : d = RouteTarget) => resolved = RouteTarget

\* a POST for "/" has been served from <root>/POST
C22_Witness ==
    /\ pc = "done" /\ url = <<SEP>> /\ method = "POST"
    /\ resolved = ROOT \o <<"POST">> /\ wire # <<>>

\* the artifacts among STATUS, DATA and HEADERS that directory d lacks
Missing(d) == {a \in {"STATUS", "DATA", "HEADERS"} : ~Files(d)[a].exists}

(* C23: a resolved directory without HANDLE is classified before it is    *)
(* loaded: when any of STATUS, DATA and HEADERS is missing, handling      *)
(* fails with the missing-artifact kind (FileNotFoundError) whatever the  *)
(* artifacts present hold, a STATUS that is not a number included.        *)
C23_MissingBeforeMalformed ==
    (Loaded /\ ~Files(resolved).HANDLE.exists /\ Missing(resolved) # {}) =>
        (raisedIn = "_static_handler" /\ raised = "FileNotFoundError")

\* the program of directory d prints nothing but whitespace
PrintsNothing(d) == Trimmed(Files(d).HANDLE.out) = <<>>

(* C24: when a HANDLE program exits with status zero and empty or         *)
(* whitespace-only output, the get_handler call that follows fails: no    *)
(* HANDLE program is invoked again and no static response is returned.    *)
C24_EmptyOutputFails ==
    (invoked # <<>> /\ invoked[1].exit = 0 /\ PrintsNothing(invoked[1].dir)) =>
        /\ Len(invoked) = 1
        /\ pc \notin {"dynamic", "call", "send"}
        /\ result = <<>>
        /\ pc = "done" => raisedIn = "get_handler"

\* the first get_handler call of the request has returned or raised
FirstResolved == Resolved /\ invoked = <<>> /\ cur = MethodDir(url, method)

(* C25: the directory the initial resolution selects lies inside the      *)
(* configured root: no part of the root's own path, nor the anchor, is    *)
(* replaced by the template name, and ".." parts of the request path do   *)
(* not lead outside the root.                                             *)
C25_InsideRoot ==
    (FirstResolved /\ resolved # <<>>) =>
        /\ IsPrefix(ROOT, resolved)
        /\ IsPrefix(ROOT, Real(resolved))

(* C26: the directory the initial resolution selects for a request with   *)
(* method M has M as its last part: the template name stands in for       *)
(* parts of the request path only, never for the method, so a directory   *)
(* <root>/<path>/__TEMPLATE__ serves no request.                          *)
C26_MethodIsLastPart ==
    (FirstResolved /\ resolved # <<>>) => resolved[Len(resolved)] = method

(* C26, amended: the directory the initial resolution selects has M as    *)
(* its last part except when the route target does not exist and          *)
(* <root>/<path>/__TEMPLATE__ does: then that directory is selected,      *)
(* before any candidate that replaces a part of the path.                 *)
C26_MethodOrTemplateLast ==
    (FirstResolved /\ resolved # <<>>) =>
        /\ Len(resolved) = Len(cur)
        /\ resolved[Len(resolved)] \in {method, TEMPLATE}
        /\ resolved[Len(resolved)] = TEMPLATE <=>
                (~IsDir(cur) /\ IsDir(Replaced(cur, Len(cur))))
        /\ resolved[Len(resolved)] = TEMPLATE => resolved = Replaced(cur, Len(cur))

\* <root>/a/GET is missing, <root>/a/__TEMPLATE__ and a template for the
\* part a both exist, and the former has served GET /a
C26_Witness ==
    /\ pc = "done" /\ FirstResolved /\ wire # <<>>
    /\ resolved = ROOT \o <<"a", TEMPLATE>>
    /\ IsDir(ROOT \o <<TEMPLATE, "GET">>)

====
